---------------------------- MODULE Spec2Model ----------------------------
(***************************************************************************)
(* Model of the contract wrapper classes MarketplaceDirect,                *)
(* Erc20BatchMintable and ContractPrimarySale and of the common contract   *)
(* metadata schemas.  A caller invokes one method of the shared instance;  *)
(* every await of the method is one step.  The chain (marketplace, asset   *)
(* and currency contracts) is the environment the methods read and submit  *)
(* transactions to.  trace[p] records, in order, every contract read and   *)
(* every submitted transaction of caller p's current invocation.           *)
(*                                                                         *)
(* Record constructors list their fields in the order TLC normalizes them  *)
(* to, the order in which the names first occur in the module.  TLC sorts  *)
(* the fields of a record in place when it first fingerprints it, and two  *)
(* workers sorting one unsorted record at the same time fail with a        *)
(* spurious "Field name occurs multiple times in record".                  *)
(***************************************************************************)
EXTENDS Integers, Sequences, FiniteSets, TLC

VARIABLES instance,      \* the wrapper instances' fields
          listings,      \* Marketplace.listings(listingId)
          offers,        \* Marketplace.offers(listingId, address)
          owner721,      \* what the ERC721 asset's ownerOf(tokenId) gives
          balance1155,   \* the seller's ERC1155 balanceOf(seller, tokenId)
          approved,      \* marketplace approved for the seller's token
          pc, args, loc, trace, outcome   \* per caller: position, arguments, locals

envVars == <<listings, offers, owner721, balance1155, approved>>
callVars == <<pc, args, loc, trace, outcome>>
vars == <<instance, listings, offers, owner721, balance1155, approved,
          pc, args, loc, trace, outcome>>

---------------------------------------------------------------------------
(* Bounds *)
MaxArgs == 2          \* longest batch passed to Erc20BatchMintable.to
MaxBalance == 2       \* largest ERC1155 balance / listed quantity

Procs == {1, 2}
ListingIds == {1, 2}
UNDEF == "undefined"
Absent == -1          \* an optional numeric argument that is not given
NONE == [none |-> TRUE]

---------------------------------------------------------------------------
(* Addresses.  Two spellings of one address differ in letter case only. *)
AddressZero == "0x00"
NATIVE_TOKEN_ADDRESS == "0xee"
FORWARDER_ADDRESS == "0xfd"
MarketplaceAddress == "0x3a"
TokenAddress == "0xe2"          \* an ERC20 currency / the wrapped token contract
Asset721 == "0xc7"              \* supports IERC721
Asset1155 == "0xc1"             \* supports IERC1155
AssetOther == "0xc0"            \* supports neither
Seller == "0xAA"
Other == "0xBB"
Signer == "0xDD"
Reverts == "revert"             \* a contract read that reverts

Addresses == {AddressZero, NATIVE_TOKEN_ADDRESS, "0xEE", FORWARDER_ADDRESS,
              MarketplaceAddress, TokenAddress, Asset721, Asset1155,
              AssetOther, Seller, "0xaa", Other, "0xbb", Signer, "0xdd"}

toLowerCase(s) ==
    CASE s = "0xAA" -> "0xaa"
      [] s = "0xBB" -> "0xbb"
      [] s = "0xDD" -> "0xdd"
      [] s = "0xEE" -> "0xee"
      [] OTHER -> s

isAddress(a) == a \in Addresses

isNativeToken(a) ==
    \/ toLowerCase(a) = NATIVE_TOKEN_ADDRESS
    \/ toLowerCase(a) = AddressZero

---------------------------------------------------------------------------
(* Unit normalisation.  An amount is the decimal mant / 10^scale. *)
NativeDecimals == 3
TokenDecimals == 2
Fail == -1

RECURSIVE Pow10(_)
Pow10(n) == IF n = 0 THEN 1 ELSE 10 * Pow10(n - 1)

Amount(m, s) == [mant |-> m, scale |-> s]

parseUnits(a, d) ==
    IF a.mant < 0 \/ a.scale > d THEN Fail ELSE a.mant * Pow10(d - a.scale)

normalizePriceValue(price, currency) ==
    IF isNativeToken(currency) THEN parseUnits(price, NativeDecimals)
    ELSE IF currency = TokenAddress THEN parseUnits(price, TokenDecimals)
    ELSE Fail

normalizeAmount(amount) == parseUnits(amount, TokenDecimals)

---------------------------------------------------------------------------
(* Trace events and outcomes *)
Read(to, fn, a) == [a |-> a, to |-> to, fn |-> fn, k |-> "read"]
Tx(to, fn, a) == [a |-> a, to |-> to, fn |-> fn, k |-> "tx"]

Returned(v) == [v |-> v, st |-> "returned"]
Thrown(e) == [v |-> e, st |-> "thrown"]
Pending == [v |-> UNDEF, st |-> "pending"]

IsTx(e) == e.k = "tx"
TxsOf(p) == SelectSeq(trace[p], IsTx)
SentFn(p, fn) == \E i \in 1..Len(trace[p]) : trace[p][i].k = "tx" /\ trace[p][i].fn = fn
ReadFn(p, fn) == \E i \in 1..Len(trace[p]) : trace[p][i].k = "read" /\ trace[p][i].fn = fn

---------------------------------------------------------------------------
(* The marketplace's stored listings *)
RawListing(id, asset, type, owner, qty, cur, price) ==
    [currency |-> cur, listingId |-> id, tokenOwner |-> owner,
     assetContract |-> asset, tokenId |-> 1, startTime |-> 10, endTime |-> 100,
     quantity |-> qty, buyoutPricePerToken |-> price, listingType |-> type]

ListingPool(id) ==
    { RawListing(id, AddressZero, "Direct", AddressZero, 0, AddressZero, 0),
      RawListing(id, AddressZero, "Auction", AddressZero, 0, AddressZero, 0),
      RawListing(id, Asset721, "Direct", Seller, 1, NATIVE_TOKEN_ADDRESS, 5),
      RawListing(id, Asset721, "Auction", Seller, 1, TokenAddress, 5),
      RawListing(id, Asset1155, "Direct", Seller, MaxBalance, TokenAddress, 3),
      RawListing(id, AssetOther, "Direct", Seller, 1, TokenAddress, 3) }

NoOffer == [currency |-> AddressZero, offeror |-> AddressZero,
            pricePerToken |-> 0, quantityWanted |-> 0]
AnOffer(a) == [currency |-> TokenAddress, offeror |-> a,
               pricePerToken |-> 4, quantityWanted |-> 1]

OfferAddrs == {Other}

getAddress == instance.contractWrapper

\* mapListing: the contract's struct as a DirectListing
mapListing(listing) ==
    [id |-> ToString(listing.listingId),
     asset |-> <<listing.assetContract, listing.tokenId>>,
     type |-> "Direct",
     tokenId |-> listing.tokenId,
     quantity |-> listing.quantity,
     assetContractAddress |-> listing.assetContract,
     buyoutPrice |-> listing.buyoutPricePerToken,
     currencyContractAddress |-> listing.currency,
     buyoutCurrencyValuePerToken |->
         [currency |-> listing.currency, value |-> listing.buyoutPricePerToken],
     startTimeInSeconds |-> listing.startTime,
     secondsUntilEnd |-> listing.endTime,
     sellerAddress |-> listing.tokenOwner]

mapListingReads(listing) ==
    << Read(listing.currency, "currencyMetadata", <<>>),
       Read(listing.assetContract, "tokenMetadata", <<listing.tokenId>>) >>

\* getListing with its two checks in the other order
getListing_TypeFirst(listingId) ==
    LET listing == listings[listingId] IN
    IF listing.listingType # "Direct"
    THEN Thrown("WrongListingTypeError")
    ELSE IF listing.assetContract = AddressZero
    THEN Thrown("ListingNotFoundError")
    ELSE Returned(mapListing(listing))

\* getListing: its outcome and the reads it makes
getListing(listingId) ==
    LET listing == listings[listingId] IN
    IF listing.assetContract = AddressZero
    THEN Thrown("ListingNotFoundError")
    ELSE IF listing.listingType # "Direct"
    THEN Thrown("WrongListingTypeError")
    ELSE Returned(mapListing(listing))

getListingReads(listingId) ==
    LET listing == listings[listingId] IN
    <<Read(getAddress, "listings", <<listingId>>)>> \o
    (IF getListing(listingId).st = "returned" THEN mapListingReads(listing) ELSE <<>>)

\* validateListing logs and rethrows what getListing throws
validateListing(listingId) == getListing(listingId)

---------------------------------------------------------------------------
(* Steps shared by all methods *)
\* the locals of a method; a local is <<>> until it is assigned, then <<v>>
NoLocals ==
    [offers |-> <<>>, approved |-> <<>>, owner |-> <<>>, listing |-> <<>>,
     value |-> <<>>, balance |-> <<>>, valid |-> <<>>, buyFor |-> <<>>,
     allowanceValue |-> <<>>, allowanceCurrency |-> <<>>,
     normalizedPrice |-> <<>>, normalizedPricePerToken |-> <<>>,
     blockTime |-> <<>>, listingStartTime |-> <<>>, encoded |-> <<>>]

BeginWith(p, a, l, next) ==
    /\ pc[p] = "idle"
    /\ pc' = [pc EXCEPT ![p] = next]
    /\ args' = [args EXCEPT ![p] = a]
    /\ loc' = [loc EXCEPT ![p] = l]
    /\ trace' = [trace EXCEPT ![p] = <<>>]
    /\ outcome' = [outcome EXCEPT ![p] = Pending]
    /\ UNCHANGED <<instance, envVars>>

Begin(p, a, next) == BeginWith(p, a, NoLocals, next)

Emit(p, evs) == trace' = [trace EXCEPT ![p] = @ \o evs]
Goto(p, next) == pc' = [pc EXCEPT ![p] = next]
Settle(p, o) ==
    /\ pc' = [pc EXCEPT ![p] = "done"]
    /\ outcome' = [outcome EXCEPT ![p] = o]

At(p, m, label) == pc[p] = label /\ args[p].m = m

\* the caller takes the settled promise's result: the invocation is over
Finish(p) ==
    /\ pc[p] = "done"
    /\ pc' = [pc EXCEPT ![p] = "idle"]
    /\ args' = [args EXCEPT ![p] = NONE]
    /\ loc' = [loc EXCEPT ![p] = NoLocals]
    /\ trace' = [trace EXCEPT ![p] = <<>>]
    /\ outcome' = [outcome EXCEPT ![p] = Pending]
    /\ UNCHANGED <<instance, envVars>>


\* sendTransaction: the transaction is submitted; it is mined or it reverts
TxOutcomes == {"mined", "reverted"}

---------------------------------------------------------------------------
(* MarketplaceDirect.getListing *)
Call_getListing(p) ==
    \E id \in ListingIds : Begin(p, [m |-> "getListing", listingId |-> id], "getListing")

getListing_run(p) ==
    /\ At(p, "getListing", "getListing")
    /\ Emit(p, getListingReads(args[p].listingId))
    /\ Settle(p, getListing(args[p].listingId))
    /\ UNCHANGED <<instance, envVars, args, loc>>

---------------------------------------------------------------------------
(* MarketplaceDirect.getActiveOffer: <<>> is undefined, <<o>> the offer o *)
mapOffer(listingId, offer) ==
    [listingId |-> listingId, pricePerToken |-> offer.pricePerToken,
     currencyContractAddress |-> offer.currency,
     buyerAddress |-> offer.offeror,
     quantityDesired |-> offer.quantityWanted]

Call_getActiveOffer(p) ==
    \E id \in ListingIds, a \in OfferAddrs \cup {"not-an-address"} :
        Begin(p, [m |-> "getActiveOffer", listingId |-> id, address |-> a], "getActiveOffer")

getActiveOffer_validate(p) ==
    /\ At(p, "getActiveOffer", "getActiveOffer")
    /\ Emit(p, getListingReads(args[p].listingId))
    /\ LET r == validateListing(args[p].listingId) IN
       IF r.st = "thrown" THEN Settle(p, r)
       ELSE IF ~isAddress(args[p].address)
       THEN Settle(p, Thrown("Address must be a valid address"))
       ELSE Goto(p, "getActiveOffer.offers") /\ UNCHANGED outcome
    /\ UNCHANGED <<instance, envVars, args, loc>>

\* getActiveOffer without its test for the zero offeror
getActiveOffer_offers_NoZeroCheck(p) ==
    /\ At(p, "getActiveOffer", "getActiveOffer.offers")
    /\ LET o == offers[args[p].listingId][args[p].address] IN
       /\ Emit(p, <<Read(getAddress, "offers", <<args[p].listingId, args[p].address>>)>>)
       /\ loc' = [loc EXCEPT ![p].offers = <<o>>]
       /\ Settle(p, Returned(<<mapOffer(args[p].listingId, o)>>))
    /\ UNCHANGED <<instance, envVars, args>>

getActiveOffer_offers(p) ==
    /\ At(p, "getActiveOffer", "getActiveOffer.offers")
    /\ LET o == offers[args[p].listingId][args[p].address] IN
       /\ Emit(p, <<Read(getAddress, "offers", <<args[p].listingId, args[p].address>>)>>)
       /\ loc' = [loc EXCEPT ![p].offers = <<o>>]
       /\ IF o.offeror = AddressZero
          THEN Settle(p, Returned(<<>>))
          ELSE Settle(p, Returned(<<mapOffer(args[p].listingId, o)>>))
    /\ UNCHANGED <<instance, envVars, args>>

---------------------------------------------------------------------------
(* MarketplaceDirect.isStillValidListing, called directly or by buyoutListing *)
supportsERC721(asset) == asset = Asset721
supportsERC1155(asset) == asset = Asset1155

\* JavaScript's  quantity || listing.quantity
OrDefault(quantity, dflt) == IF quantity = Absent \/ quantity = 0 THEN dflt ELSE quantity

\* what the asset contract decides once the approval check has passed
assetCheck(listing, quantity) ==
    IF supportsERC721(listing.assetContractAddress)
    THEN IF owner721 = Reverts THEN Thrown("CALL_EXCEPTION")
         ELSE Returned(toLowerCase(owner721) = toLowerCase(listing.sellerAddress))
    ELSE IF supportsERC1155(listing.assetContractAddress)
    THEN Returned(balance1155 >= OrDefault(quantity, listing.quantity))
    ELSE Returned(FALSE)

assetCheckReads(listing) ==
    << Read(listing.assetContractAddress, "supportsInterface", <<"IERC721">>),
       Read(listing.assetContractAddress, "supportsInterface", <<"IERC1155">>) >> \o
    (IF supportsERC721(listing.assetContractAddress)
     THEN <<Read(listing.assetContractAddress, "ownerOf", <<listing.tokenId>>)>>
     ELSE IF supportsERC1155(listing.assetContractAddress)
     THEN <<Read(listing.assetContractAddress, "balanceOf",
                 <<listing.sellerAddress, listing.tokenId>>)>>
     ELSE <<>>)

InvalidListingError == "The asset on this listing has been moved from the lister's wallet, this listing is now invalid"

\* buyoutListing going on without looking at isStillValidListing's result
Resolve_isStillValid_Unchecked(p, r) ==
    IF args[p].m = "isStillValidListing" THEN Settle(p, r)
    ELSE IF r.st = "thrown" THEN Settle(p, r)
    ELSE Goto(p, "buyoutListing.allowance") /\ UNCHANGED outcome

\* where isStillValidListing's result goes: to the caller, or on in buyoutListing
Resolve_isStillValid(p, r) ==
    IF args[p].m = "isStillValidListing" THEN Settle(p, r)
    ELSE IF r.st = "thrown" THEN Settle(p, r)
    ELSE IF ~r.v THEN Settle(p, Thrown(InvalidListingError))
    ELSE Goto(p, "buyoutListing.allowance") /\ UNCHANGED outcome

DirectListings ==
    { [mapListing(l) EXCEPT !.sellerAddress = s] :
        l \in {x \in ListingPool(1) : x.assetContract # AddressZero /\ x.listingType = "Direct"},
        s \in {Seller, "0xaa"} }

Quantities == 0..MaxBalance

Call_isStillValidListing(p) ==
    \E l \in DirectListings, q \in Quantities \cup {Absent} :
        BeginWith(p, [m |-> "isStillValidListing", quantity |-> q, listing |-> l],
                  [NoLocals EXCEPT !.listing = <<l>>], "isStillValid.approved")

isStillValid_approved(p) ==
    /\ pc[p] = "isStillValid.approved"
    /\ LET l == loc[p].listing[1] IN
       /\ Emit(p, <<Read(l.assetContractAddress, "isApprovedForMarketplace",
                         <<getAddress, l.tokenId, l.sellerAddress>>)>>)
       /\ IF ~approved
          THEN /\ loc' = [loc EXCEPT ![p].approved = <<FALSE>>,
                              ![p].valid = <<Returned(FALSE)>>]
               /\ Resolve_isStillValid(p, Returned(FALSE))
          ELSE /\ loc' = [loc EXCEPT ![p].approved = <<TRUE>>]
               /\ Goto(p, "isStillValid.asset")
               /\ UNCHANGED outcome
    /\ UNCHANGED <<instance, envVars, args>>

isStillValid_asset(p) ==
    /\ pc[p] = "isStillValid.asset"
    /\ LET l == loc[p].listing[1] IN
       /\ Emit(p, assetCheckReads(l))
       /\ loc' = [loc EXCEPT ![p].owner = <<owner721>>,
                              ![p].balance = <<balance1155>>,
                              ![p].valid = <<assetCheck(l, args[p].quantity)>>]
       /\ Resolve_isStillValid(p, assetCheck(l, args[p].quantity))
    /\ UNCHANGED <<instance, envVars, args>>

---------------------------------------------------------------------------
(* setErc20Allowance: nothing to submit for the native token or when the  *)
(* allowance already covers value; else an increaseAllowance transaction. *)
AllowanceChoices(currency) ==
    IF isNativeToken(currency) THEN {"native"} ELSE {"covered", "mined", "reverted"}

setErc20AllowanceEvents(value, currency, choice) ==
    IF choice = "native" THEN <<>>
    ELSE <<Read(currency, "allowance", <<Signer, getAddress>>)>> \o
         (IF choice = "covered" THEN <<>>
          ELSE <<Tx(currency, "increaseAllowance", <<getAddress, value>>)>>)

---------------------------------------------------------------------------
(* MarketplaceDirect.buyoutListing *)
Call_buyoutListing(p) ==
    \E id \in ListingIds, q \in Quantities, r \in {UNDEF, Other} :
        Begin(p,
              [m |-> "buyoutListing", listingId |-> id, quantity |-> q, receiver |-> r], "buyoutListing")

buyoutListing_validate(p) ==
    /\ At(p, "buyoutListing", "buyoutListing")
    /\ Emit(p, getListingReads(args[p].listingId))
    /\ LET r == validateListing(args[p].listingId) IN
       IF r.st = "thrown"
       THEN Settle(p, r) /\ UNCHANGED loc
       ELSE /\ loc' = [loc EXCEPT ![p].listing = <<r.v>>]
            /\ Goto(p, "isStillValid.approved")
            /\ UNCHANGED outcome
    /\ UNCHANGED <<instance, envVars, args>>

\* buyoutListing approving the per-token price only, whatever the quantity
buyoutListing_allowance_PerToken(p) ==
    /\ At(p, "buyoutListing", "buyoutListing.allowance")
    /\ LET listing == loc[p].listing[1]
           buyFor == IF args[p].receiver # UNDEF THEN args[p].receiver ELSE Signer
           value == listing.buyoutPrice
       IN \E c \in AllowanceChoices(listing.currencyContractAddress) :
            /\ Emit(p, setErc20AllowanceEvents(value, listing.currencyContractAddress, c))
            /\ loc' = [loc EXCEPT ![p].buyFor = <<buyFor>>,
                              ![p].value = <<value>>,
                              ![p].allowanceValue = <<value>>,
                              ![p].allowanceCurrency = <<listing.currencyContractAddress>>]
            /\ IF c = "reverted"
               THEN Settle(p, Thrown("TransactionError"))
               ELSE Goto(p, "buyoutListing.buy") /\ UNCHANGED outcome
    /\ UNCHANGED <<instance, envVars, args>>

buyoutListing_allowance(p) ==
    /\ At(p, "buyoutListing", "buyoutListing.allowance")
    /\ LET listing == loc[p].listing[1]
           buyFor == IF args[p].receiver # UNDEF THEN args[p].receiver ELSE Signer
           quantity == args[p].quantity
           value == listing.buyoutPrice * quantity
       IN \E c \in AllowanceChoices(listing.currencyContractAddress) :
            /\ Emit(p, setErc20AllowanceEvents(value, listing.currencyContractAddress, c))
            /\ loc' = [loc EXCEPT ![p].buyFor = <<buyFor>>,
                              ![p].value = <<value>>,
                              ![p].allowanceValue = <<value>>,
                              ![p].allowanceCurrency = <<listing.currencyContractAddress>>]
            /\ IF c = "reverted"
               THEN Settle(p, Thrown("TransactionError"))
               ELSE Goto(p, "buyoutListing.buy") /\ UNCHANGED outcome
    /\ UNCHANGED <<instance, envVars, args>>

buyoutListing_buy(p) ==
    /\ At(p, "buyoutListing", "buyoutListing.buy")
    /\ LET listing == loc[p].listing[1] IN
       \E o \in TxOutcomes :
         /\ Emit(p, <<Tx(getAddress, "buy",
                         <<args[p].listingId, loc[p].buyFor[1], args[p].quantity,
                           listing.currencyContractAddress, loc[p].value[1]>>)>>)
         /\ Settle(p, IF o = "mined" THEN Returned("receipt")
                      ELSE Thrown("TransactionError"))
    /\ UNCHANGED <<instance, envVars, args, loc>>


---------------------------------------------------------------------------
(* MarketplaceDirect.createListing *)
BlockTimes == {10, 20}

NewListings ==
    { [tokenId |-> 1, quantity |-> 1, buyoutPricePerToken |-> pr,
       assetContractAddress |-> a, currencyContractAddress |-> c,
       startTimestamp |-> t, listingDurationInSeconds |-> 100] :
        a \in {Asset721, Asset1155, AssetOther, UNDEF},
        t \in {9999, 15500},
        c \in {NATIVE_TOKEN_ADDRESS, TokenAddress, Other},
        pr \in {Amount(15, 1), Amount(5, 3)} }

validateNewListingParam(listing) ==
    IF listing.assetContractAddress = UNDEF
    THEN Thrown("Asset contract address is required")
    ELSE Returned(TRUE)

normalizeReads(currency) ==
    IF isNativeToken(currency) THEN <<>> ELSE <<Read(currency, "decimals", <<>>)>>

\* handleTokenApproval: throws for a contract that is neither ERC721 nor
\* ERC1155; submits setApprovalForAll unless the marketplace is approved
handleTokenApprovalThrows(a) == ~(supportsERC721(a) \/ supportsERC1155(a))

handleTokenApprovalEvents(a, isApproved) ==
    << Read(a, "supportsInterface", <<"IERC721">>),
       Read(a, "supportsInterface", <<"IERC1155">>) >> \o
    (IF handleTokenApprovalThrows(a) THEN <<>>
     ELSE <<Read(a, "isApprovedForAll", <<Signer, getAddress>>)>> \o
          (IF isApproved THEN <<>>
           ELSE <<Tx(a, "setApprovalForAll", <<getAddress, TRUE>>)>>))

Call_createListing(p) ==
    \E l \in NewListings : Begin(p, [m |-> "createListing", listing |-> l], "createListing")

\* validateNewListingParam, then handleTokenApproval
createListing_approve(p) ==
    /\ At(p, "createListing", "createListing")
    /\ LET l == args[p].listing
           a == l.assetContractAddress
       IN
       IF validateNewListingParam(l).st = "thrown"
       THEN /\ Settle(p, validateNewListingParam(l))
            /\ UNCHANGED <<trace, approved>>
       ELSE IF handleTokenApprovalThrows(a)
       THEN /\ Emit(p, handleTokenApprovalEvents(a, approved))
            /\ Settle(p, Thrown("Contract must implement ERC 1155 or ERC 721."))
            /\ UNCHANGED approved
       ELSE IF approved
       THEN /\ Emit(p, handleTokenApprovalEvents(a, TRUE))
            /\ Goto(p, "createListing.normalize")
            /\ UNCHANGED <<outcome, approved>>
       ELSE \E o \in TxOutcomes :
            /\ Emit(p, handleTokenApprovalEvents(a, FALSE))
            /\ IF o = "mined"
               THEN /\ approved' = TRUE
                    /\ Goto(p, "createListing.normalize")
                    /\ UNCHANGED outcome
               ELSE /\ Settle(p, Thrown("TransactionError"))
                    /\ UNCHANGED approved
    /\ UNCHANGED <<instance, listings, offers, owner721, balance1155, args, loc>>

createListing_normalize(p) ==
    /\ At(p, "createListing", "createListing.normalize")
    /\ LET l == args[p].listing
           n == normalizePriceValue(l.buyoutPricePerToken, l.currencyContractAddress)
       IN /\ Emit(p, normalizeReads(l.currencyContractAddress))
          /\ IF n = Fail
             THEN Settle(p, Thrown("invalid price")) /\ UNCHANGED loc
             ELSE /\ loc' = [loc EXCEPT ![p].normalizedPricePerToken = <<n>>]
                  /\ Goto(p, "createListing.block")
                  /\ UNCHANGED outcome
    /\ UNCHANGED <<instance, envVars, args>>

\* createListing keeping the requested start time whatever the block time
createListing_block_NoClamp(p) ==
    /\ At(p, "createListing", "createListing.block")
    /\ \E blockTime \in BlockTimes :
         LET start == args[p].listing.startTimestamp \div 1000 IN
         /\ Emit(p, <<Read("provider", "getBlock", <<"latest">>)>>)
         /\ loc' = [loc EXCEPT ![p].blockTime = <<blockTime>>,
                              ![p].listingStartTime = <<start>>]
    /\ Goto(p, "createListing.send")
    /\ UNCHANGED <<instance, envVars, args, outcome>>

createListing_block(p) ==
    /\ At(p, "createListing", "createListing.block")
    /\ \E blockTime \in BlockTimes :
         LET start == args[p].listing.startTimestamp \div 1000 IN
         /\ Emit(p, <<Read("provider", "getBlock", <<"latest">>)>>)
         /\ loc' = [loc EXCEPT ![p].blockTime = <<blockTime>>,
                              ![p].listingStartTime = <<IF start < blockTime THEN blockTime ELSE start>>]
    /\ Goto(p, "createListing.send")
    /\ UNCHANGED <<instance, envVars, args, outcome>>

createListingParams(l, price, start) ==
    [assetContract |-> l.assetContractAddress, tokenId |-> l.tokenId,
     startTime |-> start, buyoutPricePerToken |-> price,
     listingType |-> "Direct", currencyToAccept |-> l.currencyContractAddress,
     quantityToList |-> l.quantity,
     reservePricePerToken |-> price, secondsUntilEndTime |-> l.listingDurationInSeconds]

createListing_send(p) ==
    /\ At(p, "createListing", "createListing.send")
    /\ \E o \in TxOutcomes :
         /\ Emit(p, <<Tx(getAddress, "createListing",
                         <<createListingParams(args[p].listing,
                                               loc[p].normalizedPricePerToken[1],
                                               loc[p].listingStartTime[1])>>)>>)
         /\ Settle(p, IF o = "mined" THEN Returned([id |-> 3, receipt |-> "receipt"])
                      ELSE Thrown("TransactionError"))
    /\ UNCHANGED <<instance, envVars, args, loc>>

---------------------------------------------------------------------------
(* MarketplaceDirect.makeOffer *)
NativeOfferError == "You must use the wrapped native token address when making an offer with a native token"
MaxUint256 == "MaxUint256"

Call_makeOffer(p) ==
    \E id \in ListingIds, q \in Quantities \ {0},
       c \in {NATIVE_TOKEN_ADDRESS, "0xEE", TokenAddress, Other},
       pr \in {Amount(15, 1), Amount(5, 3)}, e \in {Absent, 20500} :
        Begin(p,
              [m |-> "makeOffer", listingId |-> id, pricePerToken |-> pr, currencyContractAddress |-> c,
               quantityDesired |-> q, expirationDate |-> e], "makeOffer")

\* makeOffer without its test for the native token
makeOffer_normalize_NoNativeCheck(p) ==
    /\ At(p, "makeOffer", "makeOffer")
    /\ LET c == args[p].currencyContractAddress
           n == normalizePriceValue(args[p].pricePerToken, c)
       IN /\ Emit(p, normalizeReads(c))
          /\ IF n = Fail
             THEN Settle(p, Thrown("invalid price")) /\ UNCHANGED loc
             ELSE /\ loc' = [loc EXCEPT ![p].normalizedPrice = <<n>>]
                  /\ Goto(p, "makeOffer.getListing")
                  /\ UNCHANGED outcome
    /\ UNCHANGED <<instance, envVars, args>>

makeOffer_normalize(p) ==
    /\ At(p, "makeOffer", "makeOffer")
    /\ LET c == args[p].currencyContractAddress
           n == normalizePriceValue(args[p].pricePerToken, c)
       IN
       IF isNativeToken(c)
       THEN Settle(p, Thrown(NativeOfferError)) /\ UNCHANGED <<trace, loc>>
       ELSE /\ Emit(p, normalizeReads(c))
            /\ IF n = Fail
               THEN Settle(p, Thrown("invalid price")) /\ UNCHANGED loc
               ELSE /\ loc' = [loc EXCEPT ![p].normalizedPrice = <<n>>]
                    /\ Goto(p, "makeOffer.getListing")
                    /\ UNCHANGED outcome
    /\ UNCHANGED <<instance, envVars, args>>

\* makeOffer swallowing what getListing throws
makeOffer_getListing_Unchecked(p) ==
    /\ At(p, "makeOffer", "makeOffer.getListing")
    /\ Emit(p, getListingReads(args[p].listingId))
    /\ Goto(p, "makeOffer.allowance")
    /\ UNCHANGED <<instance, envVars, args, loc, outcome>>

makeOffer_getListing(p) ==
    /\ At(p, "makeOffer", "makeOffer.getListing")
    /\ Emit(p, getListingReads(args[p].listingId))
    /\ IF getListing(args[p].listingId).st = "thrown"
       THEN Settle(p, Thrown("Error getting the listing with id"))
       ELSE Goto(p, "makeOffer.allowance") /\ UNCHANGED outcome
    /\ UNCHANGED <<instance, envVars, args, loc>>

makeOffer_allowance(p) ==
    /\ At(p, "makeOffer", "makeOffer.allowance")
    /\ LET quantity == args[p].quantityDesired
           value == loc[p].normalizedPrice[1] * quantity
           c == args[p].currencyContractAddress
       IN \E ch \in AllowanceChoices(c) :
            /\ Emit(p, setErc20AllowanceEvents(value, c, ch))
            /\ loc' = [loc EXCEPT ![p].value = <<value>>,
                              ![p].allowanceValue = <<value>>,
                              ![p].allowanceCurrency = <<c>>]
            /\ IF ch = "reverted"
               THEN Settle(p, Thrown("TransactionError"))
               ELSE Goto(p, "makeOffer.offer") /\ UNCHANGED outcome
    /\ UNCHANGED <<instance, envVars, args>>

expirationTimestamp(expirationDate) ==
    IF expirationDate = Absent THEN <<MaxUint256>> ELSE <<expirationDate \div 1000>>

makeOffer_offer(p) ==
    /\ At(p, "makeOffer", "makeOffer.offer")
    /\ \E o \in TxOutcomes :
         /\ Emit(p, <<Tx(getAddress, "offer",
                         <<args[p].listingId, args[p].quantityDesired,
                           args[p].currencyContractAddress, loc[p].normalizedPrice[1]>>
                         \o expirationTimestamp(args[p].expirationDate))>>)
         /\ Settle(p, IF o = "mined" THEN Returned("receipt")
                      ELSE Thrown("TransactionError"))
    /\ UNCHANGED <<instance, envVars, args, loc>>

---------------------------------------------------------------------------
(* MarketplaceDirect.acceptOffer *)
Call_acceptOffer(p) ==
    \E id \in ListingIds, a \in OfferAddrs :
        Begin(p, [m |-> "acceptOffer", listingId |-> id, addressOfOfferor |-> a], "acceptOffer")

acceptOffer_validate(p) ==
    /\ At(p, "acceptOffer", "acceptOffer")
    /\ Emit(p, getListingReads(args[p].listingId))
    /\ LET r == validateListing(args[p].listingId) IN
       IF r.st = "thrown" THEN Settle(p, r)
       ELSE Goto(p, "acceptOffer.send") /\ UNCHANGED outcome
    /\ UNCHANGED <<instance, envVars, args, loc>>

acceptOffer_send(p) ==
    /\ At(p, "acceptOffer", "acceptOffer.send")
    /\ LET offer == offers[args[p].listingId][args[p].addressOfOfferor] IN
       \E o \in TxOutcomes :
         /\ Emit(p, << Read(getAddress, "offers",
                            <<args[p].listingId, args[p].addressOfOfferor>>),
                       Tx(getAddress, "acceptOffer",
                          <<args[p].listingId, args[p].addressOfOfferor,
                            offer.currency, offer.pricePerToken>>) >>)
         /\ Settle(p, IF o = "mined" THEN Returned("receipt")
                      ELSE Thrown("TransactionError"))
    /\ UNCHANGED <<instance, envVars, args, loc>>

---------------------------------------------------------------------------
(* MarketplaceDirect.updateListing and cancelListing *)
Call_updateListing(p) ==
    \E l \in DirectListings, q \in Quantities :
        Begin(p, [m |-> "updateListing", listing |-> [l EXCEPT !.quantity = q]], "updateListing")

updateListing_send(p) ==
    /\ At(p, "updateListing", "updateListing")
    /\ LET listing == args[p].listing IN
       \E o \in TxOutcomes :
         /\ Emit(p, <<Tx(getAddress, "updateListing",
                         <<listing.id, listing.quantity, listing.buyoutPrice,
                           listing.buyoutPrice, listing.currencyContractAddress,
                           listing.startTimeInSeconds, listing.secondsUntilEnd>>)>>)
         /\ Settle(p, IF o = "mined" THEN Returned("receipt")
                      ELSE Thrown("TransactionError"))
    /\ UNCHANGED <<instance, envVars, args, loc>>

Call_cancelListing(p) ==
    \E id \in ListingIds : Begin(p, [m |-> "cancelListing", listingId |-> id], "cancelListing")

cancelListing_send(p) ==
    /\ At(p, "cancelListing", "cancelListing")
    /\ \E o \in TxOutcomes :
         /\ Emit(p, <<Tx(getAddress, "cancelDirectListing", <<args[p].listingId>>)>>)
         /\ Settle(p, IF o = "mined" THEN Returned("receipt")
                      ELSE Thrown("TransactionError"))
    /\ UNCHANGED <<instance, envVars, args, loc>>

---------------------------------------------------------------------------
(* Erc20BatchMintable.to *)
MintInputs ==
    { [amount |-> m, toAddress |-> a] :
        a \in {Seller, Other, "not-an-address"}, m \in {Amount(2, 1), Amount(5, 3)} }

MintBatches == UNION { [1..n -> MintInputs] : n \in 0..MaxArgs }

encodeFunctionData(fn, params) == [fn |-> fn, params |-> params]

Call_to(p) ==
    \E xs \in MintBatches :
        Begin(p, [args |-> xs, m |-> "to"], "to.loop")

\* the loop putting each encoded call in front of the earlier ones
to_encode_Prepend(p) ==
    /\ At(p, "to", "to.loop")
    /\ Len(loc[p].encoded) < Len(args[p].args)
    /\ LET arg == args[p].args[Len(loc[p].encoded) + 1]
           n == normalizeAmount(arg.amount)
       IN /\ Emit(p, <<Read(instance.erc20, "decimals", <<>>)>>)
          /\ IF n = Fail
             THEN Settle(p, Thrown("invalid amount")) /\ UNCHANGED loc
             ELSE IF ~isAddress(arg.toAddress)
             THEN Settle(p, Thrown("invalid address")) /\ UNCHANGED loc
             ELSE /\ loc' = [loc EXCEPT ![p].encoded =
                               <<encodeFunctionData("mintTo", <<arg.toAddress, n>>)>> \o @]
                  /\ UNCHANGED <<pc, outcome>>
    /\ UNCHANGED <<instance, envVars, args>>

\* one turn of the loop: normalize the amount, encode the call, push it
to_encode(p) ==
    /\ At(p, "to", "to.loop")
    /\ Len(loc[p].encoded) < Len(args[p].args)
    /\ LET arg == args[p].args[Len(loc[p].encoded) + 1]
           n == normalizeAmount(arg.amount)
       IN /\ Emit(p, <<Read(instance.erc20, "decimals", <<>>)>>)
          /\ IF n = Fail
             THEN Settle(p, Thrown("invalid amount")) /\ UNCHANGED loc
             ELSE IF ~isAddress(arg.toAddress)
             THEN Settle(p, Thrown("invalid address")) /\ UNCHANGED loc
             ELSE /\ loc' = [loc EXCEPT ![p].encoded =
                               Append(@, encodeFunctionData("mintTo", <<arg.toAddress, n>>))]
                  /\ UNCHANGED <<pc, outcome>>
    /\ UNCHANGED <<instance, envVars, args>>

\* multiCall submitted with whatever has been encoded so far
to_multiCall_Partial(p) ==
    /\ At(p, "to", "to.loop")
    /\ Len(loc[p].encoded) <= Len(args[p].args)
    /\ \E o \in TxOutcomes :
         /\ Emit(p, <<Tx(instance.erc20, "multicall", <<loc[p].encoded>>)>>)
         /\ Settle(p, IF o = "mined" THEN Returned("receipt")
                      ELSE Thrown("TransactionError"))
    /\ UNCHANGED <<instance, envVars, args, loc>>

to_multiCall(p) ==
    /\ At(p, "to", "to.loop")
    /\ Len(loc[p].encoded) = Len(args[p].args)
    /\ \E o \in TxOutcomes :
         /\ Emit(p, <<Tx(instance.erc20, "multicall", <<loc[p].encoded>>)>>)
         /\ Settle(p, IF o = "mined" THEN Returned("receipt")
                      ELSE Thrown("TransactionError"))
    /\ UNCHANGED <<instance, envVars, args, loc>>

---------------------------------------------------------------------------
(* ContractPrimarySale *)
SaleAddress == "0x5a"
PrimarySaleRecipient == Other

Call_getRecipient(p) == Begin(p, [m |-> "getRecipient"], "getRecipient")

\* getRecipient keeping what it read in a field of the instance
getRecipient_run_Caching(p) ==
    /\ At(p, "getRecipient", "getRecipient")
    /\ Emit(p, <<Read(SaleAddress, "primarySaleRecipient", <<>>)>>)
    /\ Settle(p, Returned(PrimarySaleRecipient))
    /\ instance' = [instance EXCEPT !.storage = PrimarySaleRecipient]
    /\ UNCHANGED <<envVars, args, loc>>

getRecipient_run(p) ==
    /\ At(p, "getRecipient", "getRecipient")
    /\ Emit(p, <<Read(SaleAddress, "primarySaleRecipient", <<>>)>>)
    /\ Settle(p, Returned(PrimarySaleRecipient))
    /\ UNCHANGED <<instance, envVars, args, loc>>

Call_setRecipient(p) ==
    \E r \in {Seller, Other} : Begin(p, [m |-> "setRecipient", recipient |-> r], "setRecipient")

setRecipient_send(p) ==
    /\ At(p, "setRecipient", "setRecipient")
    /\ \E o \in TxOutcomes :
         /\ Emit(p, <<Tx(SaleAddress, "setPrimarySaleRecipient", <<args[p].recipient>>)>>)
         /\ Settle(p, IF o = "mined" THEN Returned("receipt")
                      ELSE Thrown("TransactionError"))
    /\ UNCHANGED <<instance, envVars, args, loc>>

---------------------------------------------------------------------------
(* The common contract metadata schemas.  An input field is <<>> when the  *)
(* object omits it and <<v>> when it supplies v.                           *)
ZodError == Thrown("ZodError")
MAX_BPS == 10000

BasisPointsValid(n) == n >= 0 /\ n <= MAX_BPS

\* z.<type>.default(d): the default for an omitted field, else the value
WithDefault(field, d) == IF field = <<>> THEN d ELSE field[1]

CommonRoyaltySchema(o) ==
    LET bps == WithDefault(o.seller_fee_basis_points, 0)
        rcp == WithDefault(o.fee_recipient, AddressZero)
    IN IF BasisPointsValid(bps) /\ isAddress(rcp)
       THEN Returned([seller_fee_basis_points |-> bps, fee_recipient |-> rcp])
       ELSE ZodError

CommonPrimarySaleSchema(o) ==
    IF o.primary_sale_recipient # <<>> /\ isAddress(o.primary_sale_recipient[1])
    THEN Returned([primary_sale_recipient |-> o.primary_sale_recipient[1]])
    ELSE ZodError

CommonPlatformFeeSchema(o) ==
    LET bps == WithDefault(o.platform_fee_basis_points, 0)
        rcp == WithDefault(o.platform_fee_recipient, AddressZero)
    IN IF BasisPointsValid(bps) /\ isAddress(rcp)
       THEN Returned([platform_fee_basis_points |-> bps, platform_fee_recipient |-> rcp])
       ELSE ZodError

\* the trusted forwarder defaulting to the zero address
CommonTrustedForwarderSchema_ZeroDefault(o) ==
    LET f == WithDefault(o.trusted_forwarder, AddressZero)
    IN IF isAddress(f) THEN Returned([trusted_forwarder |-> f]) ELSE ZodError

CommonTrustedForwarderSchema(o) ==
    LET f == WithDefault(o.trusted_forwarder, FORWARDER_ADDRESS)
    IN IF isAddress(f) THEN Returned([trusted_forwarder |-> f]) ELSE ZodError

CommonSymbolSchema(o) == Returned([symbol |-> WithDefault(o.symbol, "")])

OptBps == {<<>>, <<0>>, <<250>>, <<MAX_BPS + 1>>}
OptAddr == {<<>>, <<Other>>, <<"0xbb">>, <<"not-an-address">>}

SchemaInputs ==
    { [seller_fee_basis_points |-> b, fee_recipient |-> a, schema |-> "royalty"] :
        b \in OptBps, a \in OptAddr }
    \cup { [primary_sale_recipient |-> a, schema |-> "primarySale"] : a \in OptAddr }
    \cup { [platform_fee_basis_points |-> b, platform_fee_recipient |-> a,
            schema |-> "platformFee"] : b \in OptBps, a \in OptAddr }
    \cup { [trusted_forwarder |-> a, schema |-> "trustedForwarder"] : a \in OptAddr }
    \cup { [symbol |-> s, schema |-> "symbol"] : s \in {<<>>, <<"">>, <<"TKN">>} }

parseSchema(o) ==
    CASE o.schema = "royalty" -> CommonRoyaltySchema(o)
      [] o.schema = "primarySale" -> CommonPrimarySaleSchema(o)
      [] o.schema = "platformFee" -> CommonPlatformFeeSchema(o)
      [] o.schema = "trustedForwarder" -> CommonTrustedForwarderSchema(o)
      [] o.schema = "symbol" -> CommonSymbolSchema(o)

Call_parse(p) == \E o \in SchemaInputs : Begin(p, [m |-> "parse", input |-> o], "parse")

parse_run(p) ==
    /\ At(p, "parse", "parse")
    /\ Settle(p, parseSchema(args[p].input))
    /\ UNCHANGED <<instance, envVars, args, loc, trace>>

---------------------------------------------------------------------------
(* The chain moves on its own: the seller transfers or burns the asset, or *)
(* removes the marketplace's approval.                                     *)
Transfer721 ==
    /\ owner721 = Seller
    /\ owner721' = Other
    /\ UNCHANGED <<instance, listings, offers, balance1155, approved, callVars>>

\* ownerOf of a burned token reverts (EIP-721) or, on some contracts, gives
\* the zero address
Burn721 ==
    /\ owner721 = Seller
    /\ owner721' \in {Reverts, AddressZero}
    /\ UNCHANGED <<instance, listings, offers, balance1155, approved, callVars>>

\* one unit of the ERC1155 token is transferred away or burned
Spend1155 ==
    /\ balance1155 > 0
    /\ balance1155' = balance1155 - 1
    /\ UNCHANGED <<instance, listings, offers, owner721, approved, callVars>>

RevokeApproval ==
    /\ approved
    /\ approved' = FALSE
    /\ UNCHANGED <<instance, listings, offers, owner721, balance1155, callVars>>

EnvStep == Transfer721 \/ Burn721 \/ Spend1155 \/ RevokeApproval

---------------------------------------------------------------------------
Init ==
    /\ instance = [contractWrapper |-> MarketplaceAddress, erc20 |-> TokenAddress,
                   storage |-> "storage", featureName |-> "feature"]
    /\ listings \in [ListingIds -> UNION {ListingPool(i) : i \in ListingIds}]
    /\ listings[1] \in ListingPool(1)
    /\ listings[2] = RawListing(2, AddressZero, "Direct", AddressZero, 0, AddressZero, 0)
    /\ offers \in [ListingIds -> [OfferAddrs -> {NoOffer} \cup {AnOffer(a) : a \in OfferAddrs}]]
    /\ offers[2] = [a \in OfferAddrs |-> NoOffer]
    /\ owner721 = Seller
    /\ balance1155 = MaxBalance
    /\ approved = TRUE
    /\ pc = [p \in Procs |-> "idle"]
    /\ args = [p \in Procs |-> NONE]
    /\ loc = [p \in Procs |-> NoLocals]
    /\ trace = [p \in Procs |-> <<>>]
    /\ outcome = [p \in Procs |-> Pending]

CallStep(p) ==
    \/ Call_getListing(p)
    \/ getListing_run(p)
    \/ Call_getActiveOffer(p)
    \/ getActiveOffer_validate(p)
    \/ getActiveOffer_offers(p)
    \/ Call_isStillValidListing(p)
    \/ isStillValid_approved(p)
    \/ isStillValid_asset(p)
    \/ Call_buyoutListing(p)
    \/ buyoutListing_validate(p)
    \/ buyoutListing_allowance(p)
    \/ buyoutListing_buy(p)
    \/ Call_createListing(p)
    \/ createListing_approve(p)
    \/ createListing_normalize(p)
    \/ createListing_block(p)
    \/ createListing_send(p)
    \/ Call_makeOffer(p)
    \/ makeOffer_normalize(p)
    \/ makeOffer_getListing(p)
    \/ makeOffer_allowance(p)
    \/ makeOffer_offer(p)
    \/ Call_acceptOffer(p)
    \/ acceptOffer_validate(p)
    \/ acceptOffer_send(p)
    \/ Call_updateListing(p)
    \/ updateListing_send(p)
    \/ Call_cancelListing(p)
    \/ cancelListing_send(p)
    \/ Call_to(p)
    \/ to_encode(p)
    \/ to_multiCall(p)
    \/ Call_getRecipient(p)
    \/ getRecipient_run(p)
    \/ Call_setRecipient(p)
    \/ setRecipient_send(p)
    \/ Call_parse(p)
    \/ parse_run(p)
    \/ Finish(p)

Next == CallStep(1) \/ EnvStep

Spec == Init /\ [][Next]_vars

---------------------------------------------------------------------------
(* Two invocations on the same instance, interleaved at their awaits,    *)
(* against a chain nobody else changes.  The first caller invokes any     *)
(* method with any arguments, the second one of SecondCalls.              *)
SecondCalls ==
    { NONE,
      [m |-> "getListing", listingId |-> 1],
      [m |-> "getActiveOffer", listingId |-> 1, address |-> Other],
      [m |-> "buyoutListing", listingId |-> 1, quantity |-> 1, receiver |-> UNDEF],
      [m |-> "makeOffer", listingId |-> 1, pricePerToken |-> Amount(15, 1),
       currencyContractAddress |-> TokenAddress, quantityDesired |-> 1,
       expirationDate |-> Absent],
      [m |-> "acceptOffer", listingId |-> 1, addressOfOfferor |-> Other],
      [m |-> "cancelListing", listingId |-> 1],
      [args |-> <<[amount |-> Amount(2, 1), toAddress |-> Seller],
                              [amount |-> Amount(2, 1), toAddress |-> Seller]>>, m |-> "to"],
      [m |-> "getRecipient"],
      [m |-> "setRecipient", recipient |-> Seller] }

InitInterleaved ==
    /\ Init
    /\ listings[1] = RawListing(1, Asset1155, "Direct", Seller, MaxBalance, TokenAddress, 3)
    /\ offers[1] = [a \in OfferAddrs |-> AnOffer(a)]

NextInterleaved ==
    \/ CallStep(1)
    \/ CallStep(2) /\ args'[2] \in SecondCalls

SpecInterleaved == InitInterleaved /\ [][NextInterleaved]_vars
---------------------------------------------------------------------------
(* Properties *)
Active(p, m) == pc[p] # "idle" /\ args[p].m = m
Done(p, m) == pc[p] = "done" /\ args[p].m = m
ThrownWith(p, e) == outcome[p].st = "thrown" /\ outcome[p].v = e
NoTx(p) == Len(TxsOf(p)) = 0
Has(p, field) == loc[p][field] # <<>>

\* the listing is missing or not Direct, or isStillValidListing did not
\* return true
C1_Invalid(p) ==
    \/ validateListing(args[p].listingId).st = "thrown"
    \/ Has(p, "valid") /\ ~(loc[p].valid[1].st = "returned" /\ loc[p].valid[1].v)

\* C1: when the listing is not found, is not a Direct listing or is no
\* longer valid, buyoutListing throws and has submitted no transaction
\* (neither an allowance change nor "buy").
C1_BuyoutValidatesFirst ==
    \A p \in Procs :
        (Active(p, "buyoutListing") /\ pc[p] # "buyoutListing" /\ C1_Invalid(p))
            => /\ NoTx(p)
               /\ pc[p] = "done"
               /\ outcome[p].st = "thrown"

C1_Witness ==
    \E p \in Procs :
        /\ Done(p, "buyoutListing")
        /\ Has(p, "valid")
        /\ ThrownWith(p, InvalidListingError)
        /\ NoTx(p)

C2_SellerHolds(l, q, owner, balance) ==
    IF supportsERC721(l.assetContractAddress)
    THEN owner # Reverts /\ toLowerCase(owner) = toLowerCase(l.sellerAddress)
    ELSE IF supportsERC1155(l.assetContractAddress)
    THEN balance >= (IF q = Absent THEN l.quantity ELSE q)
    ELSE FALSE

\* C2: isStillValidListing returns true exactly when the marketplace is
\* approved and the seller still holds the asset (ERC721: ownerOf is the
\* seller, ignoring case; ERC1155: balance >= the requested quantity, or
\* >= listing.quantity when none is given); it returns false when the asset
\* was transferred or burned, the approval removed, or the contract is
\* neither ERC721 nor ERC1155.
C2_IsStillValidExact ==
    \A p \in Procs :
        Done(p, "isStillValidListing")
            => /\ outcome[p].st = "returned"
               /\ outcome[p].v =
                    (loc[p].approved[1] /\
                     C2_SellerHolds(args[p].listing, args[p].quantity,
                                    loc[p].owner[1], loc[p].balance[1]))

\* the method's validation and unit normalization have completed
C3_Completed(p) ==
    CASE args[p].m = "createListing" -> Has(p, "normalizedPricePerToken")
      [] args[p].m = "makeOffer" ->
            /\ Has(p, "normalizedPrice")
            /\ pc[p] # "makeOffer.getListing"
            /\ getListing(args[p].listingId).st = "returned"
      [] args[p].m = "buyoutListing" ->
            /\ validateListing(args[p].listingId).st = "returned"
            /\ Has(p, "valid") /\ loc[p].valid[1].st = "returned" /\ loc[p].valid[1].v
      [] args[p].m = "acceptOffer" ->
            validateListing(args[p].listingId).st = "returned"
      [] args[p].m = "to" -> Len(loc[p].encoded) = Len(args[p].args)
      [] OTHER -> TRUE

\* C3 as stated: no transaction is submitted to any contract before the
\* method's validation and unit normalization have completed.
C3_NoTxBeforeNormalization ==
    \A p \in Procs : (pc[p] # "idle" /\ ~NoTx(p)) => C3_Completed(p)

\* C3 as amended: no transaction other than createListing's token approval
\* (setApprovalForAll on the asset contract) is submitted before the
\* method's validation and unit normalization have completed.
C3_NoTxBeforeNormalizationButApproval ==
    \A p \in Procs :
        pc[p] # "idle" =>
            \A i \in 1..Len(trace[p]) :
                (trace[p][i].k = "tx" /\ trace[p][i].fn # "setApprovalForAll")
                    => C3_Completed(p)

C3_Witness ==
    \E p \in Procs :
        /\ Done(p, "createListing")
        /\ outcome[p].st = "returned"
        /\ SentFn(p, "setApprovalForAll")
        /\ SentFn(p, "createListing")

\* C4: getListing throws ListingNotFoundError when the stored listing's
\* assetContract is the zero address (whatever its type), else
\* WrongListingTypeError when its type is not Direct, else returns the
\* mapped listing with type Direct; it submits no transaction.
C4_GetListingOutcomes ==
    \A p \in Procs :
        Active(p, "getListing") =>
            /\ NoTx(p)
            /\ pc[p] = "done" =>
                 LET l == listings[args[p].listingId] IN
                 IF l.assetContract = AddressZero
                 THEN ThrownWith(p, "ListingNotFoundError")
                 ELSE IF l.listingType # "Direct"
                 THEN ThrownWith(p, "WrongListingTypeError")
                 ELSE /\ outcome[p].st = "returned"
                      /\ outcome[p].v.type = "Direct"
                      /\ outcome[p].v.id = ToString(args[p].listingId)
                      /\ outcome[p].v.assetContractAddress = l.assetContract
                      /\ outcome[p].v.sellerAddress = l.tokenOwner
                      /\ outcome[p].v.buyoutPrice = l.buyoutPricePerToken
                      /\ outcome[p].v.currencyContractAddress = l.currency
                      /\ outcome[p].v.quantity = l.quantity

C4_Witness ==
    \E p \in Procs :
        /\ Done(p, "getListing")
        /\ listings[args[p].listingId].assetContract = AddressZero
        /\ listings[args[p].listingId].listingType = "Auction"
        /\ ThrownWith(p, "ListingNotFoundError")

\* C5: updateListing called with a listing whose quantity is 0 submits no
\* "updateListing" transaction.
C5_NoZeroQuantityUpdate ==
    \A p \in Procs :
        (Active(p, "updateListing") /\ args[p].listing.quantity = 0)
            => ~SentFn(p, "updateListing")

C6_AllValid(xs) ==
    \A i \in 1..Len(xs) :
        xs[i].amount.scale <= TokenDecimals /\ isAddress(xs[i].toAddress)

\* C6: Erc20BatchMintable.to submits exactly one multiCall whose payload
\* has one encoded "mintTo" per element of args, in the order of args, the
\* i-th carrying args[i].toAddress and the on-chain integer form of
\* args[i].amount; equal addresses stay separate calls.
C6_OneMulticallInOrder ==
    \A p \in Procs :
        Active(p, "to") =>
            /\ Len(TxsOf(p)) <= 1
            /\ (pc[p] = "done" /\ C6_AllValid(args[p].args)) =>
                 LET xs == args[p].args
                     txs == TxsOf(p)
                 IN /\ Len(txs) = 1
                    /\ txs[1].fn = "multicall"
                    /\ Len(txs[1].a[1]) = Len(xs)
                    /\ \A i \in 1..Len(xs) :
                         /\ txs[1].a[1][i].fn = "mintTo"
                         /\ txs[1].a[1][i].params[1] = xs[i].toAddress
                         /\ txs[1].a[1][i].params[2] =
                              xs[i].amount.mant * Pow10(TokenDecimals - xs[i].amount.scale)

C6_Witness ==
    \E p \in Procs :
        /\ Done(p, "to")
        /\ Len(args[p].args) = 2
        /\ args[p].args[1].toAddress = args[p].args[2].toAddress
        /\ C6_AllValid(args[p].args)
        /\ SentFn(p, "multicall")

\* C7: with the native token as currency makeOffer throws its "wrapped
\* native token" error before any contract read, price normalization,
\* allowance change or "offer" transaction.
C7_NativeOfferRejected ==
    \A p \in Procs :
        (Active(p, "makeOffer") /\ pc[p] # "makeOffer"
           /\ toLowerCase(args[p].currencyContractAddress) = NATIVE_TOKEN_ADDRESS)
            => /\ pc[p] = "done"
               /\ ThrownWith(p, NativeOfferError)
               /\ Len(trace[p]) = 0
               /\ ~Has(p, "normalizedPrice")

C7_Witness ==
    \E p \in Procs :
        /\ Done(p, "makeOffer")
        /\ args[p].currencyContractAddress = "0xEE"
        /\ ThrownWith(p, NativeOfferError)

CallState(p) == <<pc[p], args[p], loc[p], trace[p], outcome[p]>>

\* C8: no step of any method changes the instance's fields, and a step of
\* one invocation leaves the other invocation's position, arguments,
\* locals, reads and submitted transactions as they were.
C8_NoPersistedState ==
    [][ /\ instance' = instance
        /\ \A p, q \in Procs :
             p # q => (CallState(p)' = CallState(p) \/ CallState(q)' = CallState(q))
      ]_vars

C8_Witness ==
    /\ \A p \in Procs : pc[p] \notin {"idle", "done"} /\ Len(trace[p]) > 0
    /\ args[1].m = "buyoutListing"
    /\ args[2].m = "buyoutListing"

\* C9: getActiveOffer returns undefined exactly when the stored offer's
\* offeror is the zero address and else the mapped offer; it throws without
\* reading the offer when the listing is missing or not Direct or the
\* address is not valid; it submits no transaction.
C9_ActiveOffer ==
    \A p \in Procs :
        Active(p, "getActiveOffer") =>
            /\ NoTx(p)
            /\ pc[p] = "done" =>
                 LET id == args[p].listingId
                     a == args[p].address
                 IN IF validateListing(id).st = "thrown" \/ ~isAddress(a)
                    THEN outcome[p].st = "thrown" /\ ~ReadFn(p, "offers")
                    ELSE /\ outcome[p].st = "returned"
                         /\ (outcome[p].v = <<>>) <=> (offers[id][a].offeror = AddressZero)
                         /\ outcome[p].v # <<>> => outcome[p].v = <<mapOffer(id, offers[id][a])>>

C9_Witness ==
    \E p \in Procs :
        /\ Done(p, "getActiveOffer")
        /\ outcome[p].st = "returned"
        /\ outcome[p].v = <<>>

C10_Kept(out, given, dflt) == out = (IF given = <<>> THEN dflt ELSE given[1])
C10_BpsOk(given) == given = <<>> \/ (given[1] >= 0 /\ given[1] <= MAX_BPS)
C10_AddrOk(given) == given = <<>> \/ isAddress(given[1])

\* C10: parsing fills an omitted field with its default (basis points 0,
\* recipients the zero address, trusted_forwarder FORWARDER_ADDRESS,
\* symbol "") and keeps a supplied value; an omitted
\* primary_sale_recipient is a validation error.
C10_SchemaDefaults ==
    \A p \in Procs :
        Done(p, "parse") =>
            LET o == args[p].input
                r == outcome[p]
            IN CASE o.schema = "royalty" ->
                    IF C10_BpsOk(o.seller_fee_basis_points) /\ C10_AddrOk(o.fee_recipient)
                    THEN /\ r.st = "returned"
                         /\ C10_Kept(r.v.seller_fee_basis_points, o.seller_fee_basis_points, 0)
                         /\ C10_Kept(r.v.fee_recipient, o.fee_recipient, AddressZero)
                    ELSE r.st = "thrown"
                 [] o.schema = "platformFee" ->
                    IF C10_BpsOk(o.platform_fee_basis_points) /\ C10_AddrOk(o.platform_fee_recipient)
                    THEN /\ r.st = "returned"
                         /\ C10_Kept(r.v.platform_fee_basis_points, o.platform_fee_basis_points, 0)
                         /\ C10_Kept(r.v.platform_fee_recipient, o.platform_fee_recipient, AddressZero)
                    ELSE r.st = "thrown"
                 [] o.schema = "trustedForwarder" ->
                    IF C10_AddrOk(o.trusted_forwarder)
                    THEN /\ r.st = "returned"
                         /\ C10_Kept(r.v.trusted_forwarder, o.trusted_forwarder, FORWARDER_ADDRESS)
                    ELSE r.st = "thrown"
                 [] o.schema = "symbol" ->
                    /\ r.st = "returned"
                    /\ C10_Kept(r.v.symbol, o.symbol, "")
                 [] o.schema = "primarySale" ->
                    IF o.primary_sale_recipient # <<>> /\ isAddress(o.primary_sale_recipient[1])
                    THEN /\ r.st = "returned"
                         /\ r.v.primary_sale_recipient = o.primary_sale_recipient[1]
                    ELSE r.st = "thrown"

C10_Witness ==
    \E p \in Procs :
        /\ Done(p, "parse")
        /\ args[p].input.schema = "trustedForwarder"
        /\ args[p].input.trusted_forwarder = <<>>
        /\ outcome[p].st = "returned"
        /\ outcome[p].v.trusted_forwarder = FORWARDER_ADDRESS

---------------------------------------------------------------------------
\* the transaction the method is about, and what setErc20Allowance is to be
\* called with: per-token price times quantity, in the call's currency
C11_Fn(p) == IF args[p].m = "buyoutListing" THEN "buy" ELSE "offer"

C11_Currency(p) ==
    IF args[p].m = "buyoutListing"
    THEN loc[p].listing[1].currencyContractAddress
    ELSE args[p].currencyContractAddress

C11_Value(p) ==
    IF args[p].m = "buyoutListing"
    THEN loc[p].listing[1].buyoutPrice * args[p].quantity
    ELSE loc[p].normalizedPrice[1] * args[p].quantityDesired

C11_AllowanceFailed(p) ==
    /\ pc[p] = "done"
    /\ outcome[p].st = "thrown"
    /\ Len(trace[p]) > 0
    /\ trace[p][Len(trace[p])].k = "tx"
    /\ trace[p][Len(trace[p])].fn = "increaseAllowance"

\* C11: in buyoutListing and makeOffer the allowance step has completed
\* before the "buy" / "offer" transaction is submitted; it is called with
\* per-token price times quantity in the call's currency (buyoutListing:
\* buyoutPrice and currency of the listing read at the start of the call,
\* which are also the currency and total value passed to "buy"; makeOffer:
\* the normalized pricePerToken times quantityDesired); when the allowance
\* step fails no "buy" / "offer" is submitted.
C11_AllowanceBeforeSubmit ==
    \A p \in Procs :
        (Active(p, "buyoutListing") \/ Active(p, "makeOffer")) =>
            /\ Has(p, "allowanceValue") =>
                  /\ loc[p].allowanceValue[1] = C11_Value(p)
                  /\ loc[p].allowanceCurrency[1] = C11_Currency(p)
            /\ \A i \in 1..Len(trace[p]) :
                  LET e == trace[p][i] IN
                  /\ (e.k = "tx" /\ e.fn = "increaseAllowance") =>
                        /\ e.to = C11_Currency(p)
                        /\ e.a = <<getAddress, C11_Value(p)>>
                  /\ (e.k = "tx" /\ e.fn = C11_Fn(p)) =>
                        /\ i = Len(trace[p])
                        /\ pc[p] = "done"
                        /\ Has(p, "allowanceValue")
                        /\ isNativeToken(C11_Currency(p))
                             \/ \E j \in 1..(i - 1) :
                                   /\ trace[p][j].k = "read"
                                   /\ trace[p][j].fn = "allowance"
                                   /\ trace[p][j].to = C11_Currency(p)
                        /\ args[p].m = "buyoutListing" =>
                              /\ e.a[4] = C11_Currency(p)
                              /\ e.a[5] = C11_Value(p)
                        /\ args[p].m = "makeOffer" =>
                              /\ e.a[3] = C11_Currency(p)
                              /\ e.a[4] * e.a[2] = C11_Value(p)
            /\ C11_AllowanceFailed(p) => ~SentFn(p, C11_Fn(p))

\* a buyout of two tokens submitted after an allowance transaction for twice
\* the per-token price
C11_Witness ==
    /\ Done(1, "buyoutListing")
    /\ args[1].quantity = 2
    /\ SentFn(1, "increaseAllowance")
    /\ SentFn(1, "buy")
    /\ loc[1].allowanceValue[1] = 2 * loc[1].listing[1].buyoutPrice
    /\ loc[1].allowanceValue[1] > 0
---------------------------------------------------------------------------
C12_Max(a, b) == IF a < b THEN b ELSE a

\* C12: every "createListing" transaction of MarketplaceDirect.createListing
\* is submitted after the latest block was read, with startTime equal to
\* max(floor(startTimestamp in milliseconds / 1000), timestamp of that block),
\* so never earlier than that block, with listingType Direct and with
\* reservePricePerToken equal to buyoutPricePerToken.
C12_StartNotInPast ==
    \A p \in Procs :
        Active(p, "createListing") =>
            \A i \in 1..Len(trace[p]) :
                LET e == trace[p][i] IN
                (e.k = "tx" /\ e.fn = "createListing") =>
                    /\ Has(p, "blockTime")
                    /\ \E j \in 1..(i - 1) :
                          trace[p][j].k = "read" /\ trace[p][j].fn = "getBlock"
                    /\ e.a[1].startTime =
                          C12_Max(args[p].listing.startTimestamp \div 1000,
                                  loc[p].blockTime[1])
                    /\ e.a[1].startTime >= loc[p].blockTime[1]
                    /\ e.a[1].listingType = "Direct"
                    /\ e.a[1].reservePricePerToken = e.a[1].buyoutPricePerToken
                    /\ e.a[1].buyoutPricePerToken = loc[p].normalizedPricePerToken[1]

\* a listing requested to start before the latest block is submitted as
\* starting at that block
C12_Witness ==
    /\ Done(1, "createListing")
    /\ SentFn(1, "createListing")
    /\ args[1].listing.startTimestamp \div 1000 < loc[1].blockTime[1]
    /\ trace[1][Len(trace[1])].a[1].startTime = loc[1].blockTime[1]
---------------------------------------------------------------------------
\* C13: Erc20BatchMintable.to is all-or-nothing on the client side: when
\* normalizing the amount or encoding the call fails for any element of
\* args, no transaction is submitted at any point of the call (so no mint of
\* an earlier, valid element) and the method ends rejected.
C13_AllOrNothing ==
    \A p \in Procs :
        (Active(p, "to") /\ ~C6_AllValid(args[p].args)) =>
            /\ NoTx(p)
            /\ pc[p] = "done" => outcome[p].st = "thrown"

\* a batch whose first element was encoded and whose second element is
\* invalid: rejected with nothing submitted
C13_Witness ==
    /\ Done(1, "to")
    /\ Len(args[1].args) = 2
    /\ C6_AllValid(<<args[1].args[1]>>)
    /\ ~C6_AllValid(<<args[1].args[2]>>)
    /\ Len(loc[1].encoded) = 1
    /\ outcome[1].st = "thrown"
    /\ NoTx(1)
====
